---- MODULE Spec2Model ----
(***************************************************************************)
(* Static page generation of the blog: exports.createPages of              *)
(* gatsby-node.js (one post page per markdown post with previous/next      *)
(* links, one tag page per unique tag) and the BlogPostsByTag page query   *)
(* of src/templates/tag.jsx that fills every tag page with its posts.      *)
(*                                                                         *)
(* Sequences are 1-based here: JavaScript's index i is index i + 1.        *)
(*                                                                         *)
(* Spec draws content sources whose posts have slugs of their own that     *)
(* start no tag path.  SiteSpec draws the slugs as well and renders the    *)
(* TagList component; LimitSpec runs the createPages query with its limit  *)
(* at the scale of the model's content sources.                            *)
(*                                                                         *)
(* Two programs of the articles are modelled next to it, each under its    *)
(* own specification: the Redis job queue (add_jobs.php, worker.php) under *)
(* QueueSpec and the posts repository (PostgresPostsRepository) under      *)
(* RepoSpec.  A specification leaves the variables of the others at rest.  *)
(***************************************************************************)
EXTENDS Integers, Sequences, FiniteSets, TLC

VARIABLES
    nodes,      \* the markdown nodes of the content source (allMarkdownRemark)
    result,     \* what the awaited graphql() call of createPages returned
    posts,      \* const posts = result.data.allMarkdownRemark.nodes
    tags,       \* const tags = new Set(), in insertion order
    pages,      \* the createPage calls made so far, in call order
    panics,     \* number of reporter.panicOnBuild calls
    pc,         \* position of createPages: "start", "queried", "done"
    tagPage,    \* the tag page rendered last: its index in pages, tag and query data
    links,      \* the links of the TagList rendered last
    \* the job queue
    jobs,       \* the Redis list `jobs`, its head (left end) first
    pushed,     \* number of jobs pushed so far, by any client
    added,      \* $i of add_jobs.php: -1 before it runs
    total,      \* $totalRecords of add_jobs.php
    wpc,        \* position of each worker.php process
    wjob,       \* $jobData of each worker
    executed,   \* the jobs executed so far, in order, with their worker
    lost,       \* the jobs whose worker died holding them
    \* the posts repository
    table,      \* the rows of the table posts
    seq,        \* the sequence posts_id_seq
    call        \* the repository call made last, with what it returned

blogVars == <<nodes, result, posts, tags, pages, panics, pc, tagPage, links>>

queueVars == <<jobs, pushed, added, total, wpc, wjob, executed, lost>>

repoVars == <<table, seq, call>>

vars == <<blogVars, queueVars, repoVars>>

----------------------------------------------------------------------------
(* Bounds of the model and the inputs drawn from them.                     *)

MaxPosts == 3

Dates == {1, 2}

\* Tag strings that differ only in letter case or only in whitespace.
TagNames == {"go", "Go", "go "}

\* The authored `tags` lists: empty, single, a tag listed twice, two tags in
\* both orders.
TagLists ==
    << <<>>, <<"go">>, <<"Go">>, <<"go ">>, <<"go", "go">>,
       <<"go", "Go">>, <<"Go", "go">>, <<"go", "go ">> >>

----------------------------------------------------------------------------
(* Values.                                                                 *)

\* JavaScript null (previousPostId / nextPostId at the ends).
Null == "null"

blogPostTemplate == "./src/templates/blog-post.jsx"

tagTemplate == "./src/templates/tag.jsx"

\* frontmatter.tags of a post that declares no tags: GraphQL returns null.
NullTags == [null |-> TRUE, list |-> <<>>]

\* frontmatter.tags of shape k: 0 is a post without `tags`, k > 0 is TagLists[k].
Tags(k) == IF k = 0 THEN NullTags ELSE [null |-> FALSE, list |-> TagLists[k]]

\* One allMarkdownRemark node with the fields createPages selects.
Node(i, date, t) ==
    [id |-> "id" \o ToString(i),
     fields |-> [slug |-> "/post-" \o ToString(i) \o "/"],
     frontmatter |-> [date |-> date, tags |-> t]]

Range(s) == {s[i] : i \in 1..Len(s)}

\* limit: 1000 of the createPages query.
Limit == 1000

Take(s, n) == IF Len(s) <= n THEN s ELSE SubSeq(s, 1, n)

----------------------------------------------------------------------------
(* The two GraphQL queries.  The query text fixes the filter and the sort  *)
(* key and direction; the order of nodes with equal dates is left to the   *)
(* query engine, so every order of them is a possible answer.              *)

Orderings(S) ==
    {s \in [1..Cardinality(S) -> S] : \A i, j \in 1..Cardinality(S) : s[i] = s[j] => i = j}

\* sort: { frontmatter: { date: ASC } }
DateAsc(s) ==
    \A i \in 1..Len(s), j \in 1..Len(s) :
        i < j => s[i].frontmatter.date <= s[j].frontmatter.date

\* Variant: the page query sorts like the createPages query, oldest first.
DateDescAsAscending(s) ==
    \A i \in 1..Len(s), j \in 1..Len(s) :
        i < j => s[i].frontmatter.date <= s[j].frontmatter.date

\* sort: { frontmatter: { date: DESC } }
DateDesc(s) ==
    \A i \in 1..Len(s), j \in 1..Len(s) :
        i < j => s[i].frontmatter.date >= s[j].frontmatter.date

\* allMarkdownRemark(sort: { frontmatter: { date: ASC } }, limit: 1000)
AllPostsQuery(all) ==
    {Take(s, Limit) : s \in {o \in Orderings(Range(all)) : DateAsc(o)}}

\* tag.trim().toLowerCase() on the tag strings of the model.
Normalized(tag) == IF tag \in TagNames THEN "go" ELSE tag

\* Variant: the filter compares the tags without regard to case and spaces.
TagsInNormalized(node, tag) ==
    /\ ~node.frontmatter.tags.null
    /\ \E k \in 1..Len(node.frontmatter.tags.list) :
          Normalized(node.frontmatter.tags.list[k]) = Normalized(tag)

\* Variant: the filter looks at the first tag of a post only (tags[0] eq $tag).
TagsInFirstOnly(node, tag) ==
    /\ ~node.frontmatter.tags.null
    /\ Len(node.frontmatter.tags.list) >= 1
    /\ node.frontmatter.tags.list[1] = tag

\* filter: { frontmatter: { tags: { in: [$tag] } } }
TagsIn(node, tag) ==
    /\ ~node.frontmatter.tags.null
    /\ \E k \in 1..Len(node.frontmatter.tags.list) : node.frontmatter.tags.list[k] = tag

\* query BlogPostsByTag($tag: String!)
BlogPostsByTag(all, tag) ==
    {o \in Orderings({n \in Range(all) : TagsIn(n, tag)}) : DateDesc(o)}

----------------------------------------------------------------------------
(* exports.createPages.                                                    *)

\* Variant: index === 0 ? null : posts[index].id
previousPostIdSelf(ps, index) == IF index = 1 THEN Null ELSE ps[index].id

\* index === 0 ? null : posts[index - 1].id
previousPostId(ps, index) == IF index = 1 THEN Null ELSE ps[index - 1].id

\* Variant: the last post links on to the first one
\* (posts[(index + 1) % posts.length].id).
nextPostIdWrapping(ps, index) == IF index = Len(ps) THEN ps[1].id ELSE ps[index + 1].id

\* index === posts.length - 1 ? null : posts[index + 1].id
nextPostId(ps, index) == IF index = Len(ps) THEN Null ELSE ps[index + 1].id

\* Variant: tags is an array and tags.push(tag) keeps every copy.
SetAddPush(set, tag) == Append(set, tag)

\* Variant: tags.add(tag.trim().toLowerCase())
SetAddNormalized(set, tag) ==
    IF \E k \in 1..Len(set) : set[k] = Normalized(tag)
    THEN set ELSE Append(set, Normalized(tag))

\* Variant: tags.delete(tag); tags.add(tag), which moves a tag met again to
\* the end of the set.
SetAddLast(set, tag) ==
    Append(SelectSeq(set, LAMBDA x : x # tag), tag)

\* tags.add(tag): a Set keeps one copy of a value, in insertion order.
SetAdd(set, tag) ==
    IF \E k \in 1..Len(set) : set[k] = tag THEN set ELSE Append(set, tag)

\* Variant: [post.frontmatter.tags].flat().forEach(...), which iterates over
\* the one element null when tags is null.
TagsOfFlat(post) ==
    IF post.frontmatter.tags.null THEN <<Null>> ELSE post.frontmatter.tags.list

\* post.frontmatter.tags?.forEach(...): nothing is iterated when tags is null.
TagsOf(post) ==
    IF post.frontmatter.tags.null THEN <<>> ELSE post.frontmatter.tags.list

\* Variant: only the first tag of a post is added (tags.add(post.frontmatter.tags[0])).
AddAllFirstOnly(set, list) ==
    IF list = <<>> THEN set ELSE SetAdd(set, Head(list))

RECURSIVE AddAll(_, _)
\* post.frontmatter.tags?.forEach((tag) => { tags.add(tag) })
AddAll(set, list) ==
    IF list = <<>> THEN set ELSE AddAll(SetAdd(set, Head(list)), Tail(list))

\* Variant: path: `/blog${post.fields.slug}`
BlogPostPagePrefixed(ps, index) ==
    [path |-> "/blog" \o ps[index].fields.slug,
     component |-> blogPostTemplate,
     context |-> [id |-> ps[index].id,
                  previousPostId |-> previousPostId(ps, index),
                  nextPostId |-> nextPostId(ps, index)]]

\* createPage({ path: post.fields.slug, component: blogPostTemplate, context })
BlogPostPage(ps, index) ==
    [path |-> ps[index].fields.slug,
     component |-> blogPostTemplate,
     context |-> [id |-> ps[index].id,
                  previousPostId |-> previousPostId(ps, index),
                  nextPostId |-> nextPostId(ps, index)]]

\* Variant: `/tags/${tag}` without the closing slash.
TagPathNoSlash(tag) == "/tags/" \o tag

\* `/tags/${tag}/`
TagPath(tag) == "/tags/" \o tag \o "/"

\* createPage({ path: `/tags/${tag}/`, component: tagTemplate, context: { tag } })
TagPage(tag) ==
    [path |-> TagPath(tag), component |-> tagTemplate, context |-> [tag |-> tag]]

RECURSIVE PostsForEachTaggedOnly(_, _, _)
\* Variant: the callback returns before createPage when the post has no tags
\* (if (!post.frontmatter.tags?.length) return).
PostsForEachTaggedOnly(ps, index, st) ==
    IF index > Len(ps) THEN st
    ELSE PostsForEachTaggedOnly(ps, index + 1,
            [tags |-> AddAll(st.tags, TagsOf(ps[index])),
             pages |-> IF TagsOf(ps[index]) = <<>> THEN st.pages
                       ELSE Append(st.pages, BlogPostPage(ps, index))])

RECURSIVE PostsForEachWithTagPages(_, _, _)
\* Variant: the tag page is created inside the loop over the posts, as soon
\* as a tag is met first (if (!tags.has(tag)) { tags.add(tag); createPage(...) }).
PostsForEachWithTagPages(ps, index, st) ==
    IF index > Len(ps) THEN st
    ELSE PostsForEachWithTagPages(ps, index + 1,
            [tags |-> AddAll(st.tags, TagsOf(ps[index])),
             pages |-> [k \in 1..(Len(AddAll(st.tags, TagsOf(ps[index]))) - Len(st.tags)) |->
                           TagPage(AddAll(st.tags, TagsOf(ps[index]))[Len(st.tags) + k])]
                       \o Append(st.pages, BlogPostPage(ps, index))])

RECURSIVE PostsForEach(_, _, _)
\* posts.forEach((post, index) => ...): the state after the iterations from
\* index on, st being the tag set and the pages before them.
PostsForEach(ps, index, st) ==
    IF index > Len(ps) THEN st
    ELSE PostsForEach(ps, index + 1,
            [tags |-> AddAll(st.tags, TagsOf(ps[index])),
             pages |-> Append(st.pages, BlogPostPage(ps, index))])

\* Array.from(tags).forEach(tag => createPage(...)) appended to the pages.
TagsForEach(st) ==
    [tags |-> st.tags,
     pages |-> st.pages \o [k \in 1..Len(st.tags) |-> TagPage(st.tags[k])]]

\* Variant: no check of posts.length, and the set starts with a tag for the
\* posts without tags (new Set(["untagged"])).
CreateAllSeeded(ps) ==
    TagsForEach(PostsForEach(ps, 1, [tags |-> <<"untagged">>, pages |-> <<>>]))

\* The body of createPages after the error check.
CreateAll(ps) ==
    IF Len(ps) > 0
    THEN TagsForEach(PostsForEach(ps, 1, [tags |-> <<>>, pages |-> <<>>]))
    ELSE [tags |-> <<>>, pages |-> <<>>]

----------------------------------------------------------------------------
(* The state machine.                                                      *)

NoResult == [errors |-> FALSE, nodes |-> <<>>]

NoTagPage == [index |-> 0, tag |-> "", path |-> "", posts |-> <<>>]

\* Node ids are opaque and the queries fix no order among equal dates, so a
\* content source is determined by how many posts of each (date, tags) it
\* holds: the ids are numbered along the order of (tags, date), which is not
\* the order of the dates.
Key(date, k) == k * (Cardinality(Dates) + 1) + date

\* No job queue: nothing pushed, no worker started.
QueueOff ==
    /\ jobs = <<>>
    /\ pushed = 0
    /\ added = -1
    /\ total = 0
    /\ wpc = <<>>
    /\ wjob = <<>>
    /\ executed = <<>>
    /\ lost = {}

\* No repository: an empty table, no call made.
RepoOff ==
    /\ table = {}
    /\ seq = 0
    /\ call = [op |-> "none"]

Init ==
    /\ QueueOff
    /\ RepoOff
    /\ \E n \in 0..MaxPosts :
         \E ds \in [1..n -> Dates], ks \in [1..n -> 0..Len(TagLists)] :
            /\ \A i \in 1..n, j \in 1..n : i < j => Key(ds[i], ks[i]) <= Key(ds[j], ks[j])
            /\ nodes = [i \in 1..n |-> Node(i, ds[i], Tags(ks[i]))]
    /\ result = NoResult
    /\ posts = <<>>
    /\ tags = <<>>
    /\ pages = <<>>
    /\ panics = 0
    /\ pc = "start"
    /\ tagPage = NoTagPage
    /\ links = <<>>

\* const result = await graphql(`...`): the load answers with the nodes by
\* ascending date, or reports errors, with or without the data next to them.
Graphql ==
    /\ pc = "start"
    /\ \/ \E s \in AllPostsQuery(nodes) \cup {<<>>} : result' = [errors |-> TRUE, nodes |-> s]
       \/ \E s \in AllPostsQuery(nodes) : result' = [errors |-> FALSE, nodes |-> s]
    /\ pc' = "queried"
    /\ UNCHANGED <<nodes, posts, tags, pages, panics, tagPage>>
    /\ UNCHANGED <<links, queueVars, repoVars>>

\* Variant: the error check reports and, lacking the return, goes on to
\* create the pages of whatever data the result holds.
PanicOnBuildNoReturn ==
    /\ pc = "queried"
    /\ result.errors
    /\ panics' = panics + 1
    /\ posts' = result.nodes
    /\ tags' = CreateAll(result.nodes).tags
    /\ pages' = CreateAll(result.nodes).pages
    /\ pc' = "done"
    /\ UNCHANGED <<nodes, result, tagPage>>
    /\ UNCHANGED <<links, queueVars, repoVars>>

\* if (result.errors) { reporter.panicOnBuild(...); return }
PanicOnBuild ==
    /\ pc = "queried"
    /\ result.errors
    /\ panics' = panics + 1
    /\ pc' = "done"
    /\ UNCHANGED <<nodes, result, posts, tags, pages, tagPage>>
    /\ UNCHANGED <<links, queueVars, repoVars>>

\* The elements of s from the last to the first.
Reverse(s) == [i \in 1..Len(s) |-> s[Len(s) + 1 - i]]

\* Variant: const posts = result.data.allMarkdownRemark.nodes.reverse(), which
\* reverses the array of the result in place.
CreatePagesReversing ==
    /\ pc = "queried"
    /\ ~result.errors
    /\ result' = [result EXCEPT !.nodes = Reverse(result.nodes)]
    /\ posts' = Reverse(result.nodes)
    /\ tags' = CreateAll(Reverse(result.nodes)).tags
    /\ pages' = CreateAll(Reverse(result.nodes)).pages
    /\ pc' = "done"
    /\ UNCHANGED <<nodes, panics, tagPage>>
    /\ UNCHANGED <<links, queueVars, repoVars>>

\* The rest of createPages: both forEach loops, run to completion.
CreatePages ==
    /\ pc = "queried"
    /\ ~result.errors
    /\ posts' = result.nodes
    /\ tags' = CreateAll(result.nodes).tags
    /\ pages' = CreateAll(result.nodes).pages
    /\ pc' = "done"
    /\ UNCHANGED <<nodes, result, panics, tagPage>>
    /\ UNCHANGED <<links, queueVars, repoVars>>

\* The build renders the registered tag pages one after the other, in the
\* order of their createPage calls: it runs the page query of the template
\* with the page's context and hands the nodes to TagTemplate.
RenderTagPage ==
    /\ pc = "done"
    /\ \E k \in 1..Len(pages) :
         /\ k > tagPage.index
         /\ pages[k].component = tagTemplate
         /\ \A j \in 1..Len(pages) :
              (j > tagPage.index /\ pages[j].component = tagTemplate) => k <= j
         /\ \E listing \in BlogPostsByTag(nodes, pages[k].context.tag) :
              tagPage' = [index |-> k,
                          tag |-> pages[k].context.tag,
                          path |-> pages[k].path,
                          posts |-> listing]
    /\ UNCHANGED <<nodes, result, posts, tags, pages, panics, pc>>
    /\ UNCHANGED <<links, queueVars, repoVars>>

Next == Graphql \/ PanicOnBuild \/ CreatePages \/ RenderTagPage

Spec == Init /\ [][Next]_vars

----------------------------------------------------------------------------
(* Vocabulary of the properties.                                           *)

TypeOK ==
    /\ pc \in {"start", "queried", "done"}
    /\ Len(nodes) <= MaxPosts
    /\ panics \in 0..1
    /\ tagPage.index \in 0..Len(pages)

\* The positions of the tag pages and of the post pages among the createPage calls.
TagPageCalls == {k \in 1..Len(pages) : pages[k].component = tagTemplate}

PostPageCalls == {k \in 1..Len(pages) : pages[k].component = blogPostTemplate}

\* The tag strings a post carries (none when `tags` is missing).
Carried(post) ==
    IF post.frontmatter.tags.null THEN {}
    ELSE {post.frontmatter.tags.list[k] : k \in 1..Len(post.frontmatter.tags.list)}

\* The distinct tag strings of a sequence of posts.
DistinctTags(ps) == UNION {Carried(ps[i]) : i \in 1..Len(ps)}

\* A tag page has been rendered.
Rendered == tagPage.index > 0

----------------------------------------------------------------------------
(* C1: the number of tag pages registered by createPages equals the number *)
(* of distinct tag strings in the tags of the posts; a tag carried by      *)
(* several posts or listed twice in one post counts once.                  *)
TagPageCountIsDistinctTagCount ==
    pc = "done" => Cardinality(TagPageCalls) = Cardinality(DistinctTags(posts))

\* Two posts share a tag, one post lists a tag twice, and two tags exist.
SharedAndRepeatedTagCounted ==
    /\ pc = "done"
    /\ Cardinality(DistinctTags(posts)) = 2
    /\ \E i, j \in 1..Len(posts) : i # j /\ Carried(posts[i]) \cap Carried(posts[j]) # {}
    /\ \E i \in 1..Len(posts) :
         /\ ~posts[i].frontmatter.tags.null
         /\ Len(posts[i].frontmatter.tags.list) > Cardinality(Carried(posts[i]))

(* C2: soundness of tag listings: every post listed on the page of tag t   *)
(* has t in its own tags.                                                  *)
ListedPostsCarryTheTag ==
    Rendered =>
        \A i \in 1..Len(tagPage.posts) : tagPage.tag \in Carried(tagPage.posts[i])

\* A page was rendered with a post on it while another post, tagged
\* otherwise, stays off it.
ListingLeavesOtherPostsOut ==
    /\ Rendered
    /\ Len(tagPage.posts) >= 1
    /\ \E i \in 1..Len(nodes) :
         /\ Carried(nodes[i]) # {}
         /\ tagPage.tag \notin Carried(nodes[i])

(* C3: completeness of tag listings: every post handed to createPages that *)
(* has t in its tags is on the page of tag t, exactly once.                *)
TaggedPostsListedOnce ==
    Rendered =>
        \A i \in 1..Len(posts) :
            tagPage.tag \in Carried(posts[i]) =>
                Cardinality({j \in 1..Len(tagPage.posts) :
                                tagPage.posts[j].id = posts[i].id}) = 1

\* A page lists two posts, one of which carries its tag as second tag only.
ListingHoldsSeveralPosts ==
    /\ Rendered
    /\ Len(tagPage.posts) >= 2
    /\ \E i \in 1..Len(posts) :
         /\ tagPage.tag \in Carried(posts[i])
         /\ posts[i].frontmatter.tags.list[1] # tagPage.tag

(* C4: the posts of a tag page are in descending order of date, while the  *)
(* post sequence handed to createPages is in ascending order of date.      *)
ListingNewestFirst ==
    Rendered =>
        /\ \A i, j \in 1..Len(tagPage.posts) :
              i < j => tagPage.posts[i].frontmatter.date >= tagPage.posts[j].frontmatter.date
        /\ \A i, j \in 1..Len(posts) :
              i < j => posts[i].frontmatter.date <= posts[j].frontmatter.date

\* A page lists posts of different dates, the newer one first, and the
\* posts given to createPages have the older one first.
ListingReversesPostOrder ==
    /\ Rendered
    /\ Len(tagPage.posts) >= 2
    /\ tagPage.posts[1].frontmatter.date > tagPage.posts[Len(tagPage.posts)].frontmatter.date
    /\ posts[1].frontmatter.date < posts[Len(posts)].frontmatter.date

(* C6: every generated tag page lists at least one post: no tag page is    *)
(* registered for a tag that no post carries.                              *)
TagPageListsSomePost ==
    /\ Rendered => Len(tagPage.posts) >= 1
    /\ pc = "done" =>
         \A c \in TagPageCalls :
            \E i \in 1..Len(nodes) : pages[c].context.tag \in Carried(nodes[i])

\* A page with a single post was rendered for a content source that also
\* holds a post without tags.
SinglePostTagPageRendered ==
    /\ Rendered
    /\ Len(tagPage.posts) = 1
    /\ \E i \in 1..Len(nodes) : nodes[i].frontmatter.tags.null

\* The posts without the one at position i.
Without(ps, i) == SubSeq(ps, 1, i - 1) \o SubSeq(ps, i + 1, Len(ps))

\* The tag pages among a sequence of createPage calls.
TagPagesOf(calls) == {calls[k] : k \in {c \in 1..Len(calls) : calls[c].component = tagTemplate}}

(* C7: a post whose tags are missing or empty adds no tag and causes no    *)
(* error: its post page is registered, the other posts are processed, and  *)
(* the tag pages are those of the run without that post.                   *)
UntaggedPostAddsNoTagPage ==
    (pc = "done" /\ ~result.errors) =>
        \A i \in 1..Len(posts) :
            (posts[i].frontmatter.tags.null \/ posts[i].frontmatter.tags.list = <<>>) =>
                /\ panics = 0
                /\ \E c \in PostPageCalls :
                      /\ pages[c].path = posts[i].fields.slug
                      /\ pages[c].context.id = posts[i].id
                /\ \A j \in 1..Len(posts) :
                      \E c \in PostPageCalls : pages[c].context.id = posts[j].id
                /\ TagPagesOf(pages) = TagPagesOf(CreateAll(Without(posts, i)).pages)

\* createPages ran over a post without tags, a post with empty tags and a
\* tagged post, and registered a tag page.
UntaggedPostsAmongTaggedOnes ==
    /\ pc = "done"
    /\ \E i, j \in 1..Len(posts) :
         /\ i < j
         /\ posts[i].frontmatter.tags.null
         /\ ~posts[j].frontmatter.tags.null
         /\ posts[j].frontmatter.tags.list = <<>>
    /\ TagPageCalls # {}

(* C8: tags are collected and matched by exact string equality: two tag    *)
(* strings that differ only in case or whitespace get two tag pages, and a *)
(* post that carries only one of them is listed on that page only.         *)
TagsMatchExactly ==
    /\ pc = "done" =>
         \A s, t \in DistinctTags(posts) :
            (s # t /\ Normalized(s) = Normalized(t)) =>
                \E a, b \in TagPageCalls :
                    /\ pages[a].context.tag = s
                    /\ pages[b].context.tag = t
                    /\ pages[a].path # pages[b].path
    /\ Rendered =>
         \A i \in 1..Len(nodes) :
            (\E j \in 1..Len(tagPage.posts) : tagPage.posts[j].id = nodes[i].id)
                <=> tagPage.tag \in Carried(nodes[i])

\* The page of "Go" was rendered with a post on it, and posts that carry
\* only "go" or only "go " are not on it.
CaseVariantPageRendered ==
    /\ Rendered
    /\ tagPage.tag = "Go"
    /\ Len(tagPage.posts) >= 1
    /\ \E i \in 1..Len(nodes) : Carried(nodes[i]) = {"go"} \/ Carried(nodes[i]) = {"go "}
    /\ \A j \in 1..Len(tagPage.posts) : "Go" \in Carried(tagPage.posts[j])

(* C9: for each collected tag t exactly one page is registered, with path  *)
(* "/tags/" + t + "/" (t unmodified), the tag template and context tag t.  *)
OnePagePerCollectedTag ==
    pc = "done" =>
        \A k \in 1..Len(tags) :
            /\ Cardinality({c \in TagPageCalls : pages[c].path = "/tags/" \o tags[k] \o "/"}) = 1
            /\ Cardinality({c \in TagPageCalls : pages[c].context = [tag |-> tags[k]]}) = 1
            /\ \A c \in TagPageCalls :
                  pages[c].path = "/tags/" \o tags[k] \o "/" <=> pages[c].context = [tag |-> tags[k]]

\* A tag with a space was collected next to another tag and has its page.
TagWithSpaceRegistered ==
    /\ pc = "done"
    /\ Len(tags) = 2
    /\ \E c \in 1..Len(pages) : pages[c].path = "/tags/go /"

(* C10: the page of the i-th post of the date-ascending sequence carries   *)
(* the id of the post before it as previousPostId and of the post after it *)
(* as nextPostId; previousPostId is null exactly for the first post and    *)
(* nextPostId exactly for the last one.                                    *)
PostPagesLinkNeighbours ==
    pc = "done" =>
        \A i \in 1..Len(posts) :
            \E c \in PostPageCalls :
                /\ pages[c].context.id = posts[i].id
                /\ pages[c].context.previousPostId = Null <=> i = 1
                /\ pages[c].context.nextPostId = Null <=> i = Len(posts)
                /\ i > 1 => pages[c].context.previousPostId = posts[i - 1].id
                /\ i < Len(posts) => pages[c].context.nextPostId = posts[i + 1].id

\* Three posts were given pages: the middle one links both ways.
MiddlePostLinksBothWays ==
    /\ pc = "done"
    /\ Len(posts) = 3
    /\ \E c \in PostPageCalls :
         /\ pages[c].context.previousPostId # Null
         /\ pages[c].context.nextPostId # Null

(* C11: exactly one post page is registered per input post, in input       *)
(* order, with the post's slug as path, the post template and the post's   *)
(* id in the context; there are as many post pages as posts.               *)
OnePostPagePerPostInOrder ==
    (pc = "done" /\ ~result.errors) =>
        /\ posts = result.nodes
        /\ Cardinality(PostPageCalls) = Len(posts)
        /\ PostPageCalls = 1..Len(posts)
        /\ \A i \in 1..Len(posts) :
              /\ pages[i].path = posts[i].fields.slug
              /\ pages[i].component = blogPostTemplate
              /\ pages[i].context.id = posts[i].id

\* Three posts got their pages, the first of them not the first of the
\* content source.
ThreePostPagesRegistered ==
    /\ pc = "done"
    /\ Len(posts) = 3
    /\ posts[1].id # nodes[1].id
    /\ Cardinality(PostPageCalls) = 3

(* C13: when the content load reports errors no page is registered, no tag *)
(* is collected, the failure is reported once and createPages is over.     *)
LoadErrorRegistersNothing ==
    /\ (pc = "done" /\ result.errors) => (pages = <<>> /\ tags = <<>> /\ panics = 1)
    /\ (pc = "done" /\ ~result.errors) => panics = 0
    /\ (pc # "done") => (pages = <<>> /\ panics = 0)

\* The load reported errors next to the data of two posts, and createPages
\* returned after the report.
LoadErrorWithDataReported ==
    /\ pc = "done"
    /\ result.errors
    /\ Len(result.nodes) >= 2
    /\ panics = 1

(* C14: page generation never mutates its input: every step leaves the     *)
(* content source as it is, the query result stays what graphql returned,  *)
(* and the posts createPages works on are the nodes of that result in the  *)
(* same order.                                                             *)
InputNeverMutated ==
    [][/\ nodes' = nodes
       /\ pc # "start" => result' = result
       /\ (pc' = "done" /\ ~result.errors) => posts' = result.nodes
       /\ \A i \in 1..Len(posts') : \E k \in 1..Len(nodes) : posts'[i] = nodes[k]]_vars

\* createPages ran over two posts of different dates and holds them as the
\* query returned them.
PostsKeptAsQueried ==
    /\ pc = "done"
    /\ Len(posts) >= 2
    /\ posts = result.nodes
    /\ posts[1].frontmatter.date < posts[Len(posts)].frontmatter.date

(* C19: the set of tags with a tag page is exactly the union of the tags   *)
(* of all posts: every tag of a post has a page, every page's tag is the   *)
(* tag of a post.                                                          *)
TagPagesCoverExactlyThePostTags ==
    pc = "done" =>
        /\ \A i \in 1..Len(posts) : \A t \in Carried(posts[i]) :
              \E c \in TagPageCalls : pages[c].context.tag = t
        /\ \A c \in TagPageCalls :
              \E i \in 1..Len(posts) : pages[c].context.tag \in Carried(posts[i])

\* Three tags were collected, two of them from one post.
ThreeTagsFromTwoPosts ==
    /\ pc = "done"
    /\ Len(posts) = 2
    /\ Cardinality(TagPageCalls) = 3

RECURSIVE Scan(_, _)
\* The tags met when the posts from position i on are read in order, each
\* post's tags as authored.
Scan(ps, i) ==
    IF i > Len(ps) THEN <<>>
    ELSE (IF ps[i].frontmatter.tags.null THEN <<>> ELSE ps[i].frontmatter.tags.list)
            \o Scan(ps, i + 1)

\* The position at which tag t is met first in a scan that holds it.
FirstMet(scan, t) ==
    CHOOSE k \in 1..Len(scan) : scan[k] = t /\ \A j \in 1..(k - 1) : scan[j] # t

(* C20: tag pages are registered in order of first occurrence: the page of *)
(* s comes before the page of t exactly when s is met before t in a scan   *)
(* of the posts in date-ascending order, each post's tags as authored.     *)
TagPagesInFirstOccurrenceOrder ==
    pc = "done" =>
        \A a, b \in TagPageCalls :
            a < b <=> FirstMet(Scan(posts, 1), pages[a].context.tag)
                        < FirstMet(Scan(posts, 1), pages[b].context.tag)

\* A tag met first in an earlier post is met again after another tag.
TagMetAgainAfterAnother ==
    /\ pc = "done"
    /\ Cardinality(TagPageCalls) >= 2
    /\ \E i, j, k \in 1..Len(Scan(posts, 1)) :
         /\ i < j /\ j < k
         /\ Scan(posts, 1)[i] = Scan(posts, 1)[k]
         /\ Scan(posts, 1)[i] # Scan(posts, 1)[j]

(* C24: when the load returns an empty post sequence, createPages          *)
(* registers no page at all, neither a post page nor a tag page.           *)
NoPostsNoPages ==
    (pc = "done" /\ result.nodes = <<>>) => pages = <<>> /\ tags = <<>>

\* createPages ran to its end on an empty content source, without error.
EmptySourceBuilt ==
    /\ pc = "done"
    /\ ~result.errors
    /\ panics = 0
    /\ nodes = <<>>
    /\ pages = <<>>

(* C25: in the sequence of createPage calls every post page comes before   *)
(* every tag page, so no tag page is registered before the last post page. *)
PostPagesBeforeTagPages ==
    /\ \A a \in PostPageCalls, b \in TagPageCalls : a < b
    /\ \A b \in TagPageCalls : b > Len(posts)

\* Three post pages and two tag pages, the second tag met on the last post only.
TagOfLastPostRegistered ==
    /\ Cardinality(PostPageCalls) = 3
    /\ Cardinality(TagPageCalls) = 2
    /\ \A i \in 1..2 : Carried(posts[i]) = {"go"}
    /\ Carried(posts[3]) = {"go", "Go"}

\* The post pages whose context carries the id.
PagesOf(id) == {k \in PostPageCalls : pages[k].context.id = id}

RECURSIVE Chain(_, _)
\* The ids met by following nextPostId from the post `id`, n steps at most.
Chain(id, n) ==
    IF n = 0 \/ Cardinality(PagesOf(id)) # 1 THEN <<>>
    ELSE <<id>> \o Chain(pages[CHOOSE k \in PagesOf(id) : TRUE].context.nextPostId, n - 1)

(* C28: the previous/next links form one chain: the next of A is B exactly *)
(* when the previous of B is A, no post links to itself, and following     *)
(* nextPostId from the earliest post meets every post once, by ascending   *)
(* date, and then null.                                                    *)
LinksFormOneChain ==
    /\ \A a, b \in PostPageCalls :
          pages[a].context.nextPostId = pages[b].context.id
             <=> pages[b].context.previousPostId = pages[a].context.id
    /\ \A a \in PostPageCalls :
          /\ pages[a].context.nextPostId # pages[a].context.id
          /\ pages[a].context.previousPostId # pages[a].context.id
    /\ \A e \in PostPageCalls :
          pages[e].context.previousPostId = Null
             => /\ Chain(pages[e].context.id, Len(posts) + 1) = [i \in 1..Len(posts) |-> posts[i].id]
                /\ \A i \in 1..Len(posts) : \A j \in 1..Len(posts) :
                      i < j => posts[i].frontmatter.date <= posts[j].frontmatter.date
    /\ posts # <<>> => \E e \in PostPageCalls : pages[e].context.previousPostId = Null

\* Three linked posts of two dates, the earliest of which is not the first
\* node of the content source.
ChainOverThreePosts ==
    /\ Len(posts) = 3
    /\ posts[1].frontmatter.date < posts[3].frontmatter.date
    /\ posts[1].id # nodes[1].id
    /\ Chain(posts[1].id, 4) = <<posts[1].id, posts[2].id, posts[3].id>>

----------------------------------------------------------------------------
(* The site: content sources with slugs of any directory, and the TagList  *)
(* component that renders the tags of a post as links.                     *)

MaxSitePosts == 2

\* fields.slug is the directory of a post below content/blog; a directory
\* may be named like a tag path (content/blog/tags/go/index.md).
Slugs == {"/hello-world/", "/build-a-job-queue-with-php-and-redis/", "/tags/go/"}

\* to={`/tags/${tag}`}
LinkTo(tag) == "/tags/" \o tag

\* tags?.map(tag => <Link to={...} key={tag}><div>{tag}</div></Link>):
\* nothing is rendered when tags is null.
TagList(t) ==
    IF t.null THEN <<>>
    ELSE [k \in 1..Len(t.list) |->
             [to |-> LinkTo(t.list[k]), key |-> t.list[k], text |-> t.list[k]]]

\* A content source of posts with distinct slugs.
SiteInit ==
    /\ QueueOff
    /\ RepoOff
    /\ \E n \in 0..MaxSitePosts :
         \E ds \in [1..n -> Dates], ks \in [1..n -> 0..Len(TagLists)], sl \in [1..n -> Slugs] :
            /\ \A i \in 1..n, j \in 1..n : sl[i] = sl[j] => i = j
            /\ nodes = [i \in 1..n |->
                           [Node(i, ds[i], Tags(ks[i])) EXCEPT !.fields.slug = sl[i]]]
    /\ result = NoResult
    /\ posts = <<>>
    /\ tags = <<>>
    /\ pages = <<>>
    /\ panics = 0
    /\ pc = "start"
    /\ tagPage = NoTagPage
    /\ links = <<>>

\* The page of a post is rendered: TagList gets the tags of the post.
RenderTagList ==
    /\ pc = "done"
    /\ \E i \in 1..Len(posts) : links' = TagList(posts[i].frontmatter.tags)
    /\ UNCHANGED <<nodes, result, posts, tags, pages, panics, pc, tagPage>>
    /\ UNCHANGED <<queueVars, repoVars>>

SiteNext == Graphql \/ PanicOnBuild \/ CreatePages \/ RenderTagPage \/ RenderTagList

SiteSpec == SiteInit /\ [][SiteNext]_vars

(* C26: no two registered pages share a URL path: the post pages have      *)
(* pairwise distinct paths, the tag pages have pairwise distinct paths,    *)
(* and no post page has the path of a tag page.                            *)
NoTwoPagesShareAPath ==
    \A a \in 1..Len(pages) : \A b \in 1..Len(pages) :
        pages[a].path = pages[b].path => a = b

(* C27: every link TagList renders for a tag of a post targets the path of *)
(* the tag page createPages registered for that tag: the target built for  *)
(* tag t equals the registered path of t.                                  *)
TagLinksTargetRegisteredPaths ==
    \A k \in 1..Len(links) :
        \E c \in TagPageCalls :
            /\ pages[c].context.tag = links[k].key
            /\ pages[c].path = links[k].to

----------------------------------------------------------------------------
(* The limit of the createPages query.  No content source of the model     *)
(* holds more than Limit posts, so LimitSpec runs the query with a limit   *)
(* below MaxPosts: a content source of LimitAtScale + 1 posts stands for   *)
(* one of Limit + 1 posts.                                                 *)

LimitAtScale == 2

\* allMarkdownRemark(sort: { frontmatter: { date: ASC } }, limit: ...)
AllPostsQueryAtScale(all) ==
    {Take(s, LimitAtScale) : s \in {o \in Orderings(Range(all)) : DateAsc(o)}}

\* const result = await graphql(`...`), the limit at the scale of the model.
GraphqlAtScale ==
    /\ pc = "start"
    /\ \/ \E s \in AllPostsQueryAtScale(nodes) \cup {<<>>} :
             result' = [errors |-> TRUE, nodes |-> s]
       \/ \E s \in AllPostsQueryAtScale(nodes) : result' = [errors |-> FALSE, nodes |-> s]
    /\ pc' = "queried"
    /\ UNCHANGED <<nodes, posts, tags, pages, panics, tagPage>>
    /\ UNCHANGED <<links, queueVars, repoVars>>

LimitNext == GraphqlAtScale \/ PanicOnBuild \/ CreatePages \/ RenderTagPage

LimitSpec == Init /\ [][LimitNext]_vars

(* C29: the tag collection covers every post of the content source, not    *)
(* only the posts the limited createPages query returns: every tag for     *)
(* which the tag-listing query returns a post has a registered tag page.   *)
EveryTagOfTheSourceHasAPage ==
    (pc = "done" /\ ~result.errors) =>
        \A t \in TagNames :
            (\E listing \in BlogPostsByTag(nodes, t) : Len(listing) > 0)
                => \E c \in TagPageCalls : pages[c].context.tag = t

----------------------------------------------------------------------------
(* The job queue on a Redis list: add_jobs.php pushes jobs, worker.php     *)
(* processes pull and execute them.                                        *)

MaxJobs == 3

MaxWorkers == 2

Workers == 1..MaxWorkers

\* Two of the names of $randomPeople.
randomPeople == {"John", "Jane"}

\* Job types other clients push and worker.php has no class for.
OtherTypes == {"send_email"}

\* json_encode of a PHP array: the text of its keys and values.
JsonEncode(value) == [json |-> value]

\* json_decode($text, true): the array a JSON text stands for.
JsonDecode(text) == text.json

\* The job add_jobs.php encodes.
SayHello(name) == [type |-> "say_hello", body |-> [name |-> name]]

\* Variant: $redis->rpush('jobs', ...), which adds at the right end.
LPushAtTail(list, element) == Append(list, element)

\* LPUSH: the element becomes the head (left end) of the list.
LPush(list, element) == <<element>> \o list

\* Variant: $redis->lrange('jobs', -1, -1), which reads the right end and
\* leaves it in the list.
BRPopKeeping(list) == [element |-> list[Len(list)], list |-> list]

\* BRPOP on a list that is not empty: the right end is removed and returned.
BRPop(list) == [element |-> list[Len(list)], list |-> SubSeq(list, 1, Len(list) - 1)]

\* match ($jobType) { 'say_hello' => new SayHelloJob(), default => throw ... }
Match(jobType) == IF jobType = "say_hello" THEN "SayHelloJob" ELSE "throw"

NoJob == [no |-> 0, data |-> [type |-> "", body |-> [name |-> ""]]]

\* The submission numbers of the jobs in a list and in the workers' hands.
Listed(list) == {list[k].no : k \in 1..Len(list)}

\* No site build: an empty content source, createPages not started.
BlogOff ==
    /\ nodes = <<>>
    /\ result = NoResult
    /\ posts = <<>>
    /\ tags = <<>>
    /\ pages = <<>>
    /\ panics = 0
    /\ pc = "start"
    /\ tagPage = NoTagPage
    /\ links = <<>>

QueueInit ==
    /\ BlogOff
    /\ RepoOff
    /\ jobs = <<>>
    /\ pushed = 0
    /\ added = -1
    /\ total = 0
    /\ wpc = [w \in Workers |-> "off"]
    /\ wjob = [w \in Workers |-> NoJob]
    /\ executed = <<>>
    /\ lost = {}

\* $ php add_jobs.php n: $totalRecords = $argv[1] ?? 1
RunAddJobs(n) ==
    /\ added = -1
    /\ total' = n
    /\ added' = 0
    /\ UNCHANGED <<jobs, pushed, wpc, wjob, executed, lost, blogVars, repoVars>>

\* One iteration of the for loop: lpush of a say_hello job with a random name.
AddJob ==
    /\ added >= 0
    /\ added < total
    /\ pushed < MaxJobs
    /\ \E name \in randomPeople :
         jobs' = LPush(jobs, [no |-> pushed + 1, text |-> JsonEncode(SayHello(name))])
    /\ pushed' = pushed + 1
    /\ added' = added + 1
    /\ UNCHANGED <<total, wpc, wjob, executed, lost, blogVars, repoVars>>

\* The application queues a job of a type of its own on the same list.
AppPush ==
    /\ pushed < MaxJobs
    /\ \E type \in OtherTypes, name \in randomPeople :
         jobs' = LPush(jobs, [no |-> pushed + 1,
                              text |-> JsonEncode([type |-> type, body |-> [name |-> name]])])
    /\ pushed' = pushed + 1
    /\ UNCHANGED <<added, total, wpc, wjob, executed, lost, blogVars, repoVars>>

\* $ php worker.php
StartWorker(w) ==
    /\ wpc[w] = "off"
    /\ wpc' = [wpc EXCEPT ![w] = "brpop"]
    /\ UNCHANGED <<jobs, pushed, added, total, wjob, executed, lost, blogVars, repoVars>>

\* $jobData = json_decode($redis->brpop('jobs', 0)[1], true): the worker
\* waits while the list is empty.
Brpop(w) ==
    /\ wpc[w] = "brpop"
    /\ jobs # <<>>
    /\ jobs' = BRPop(jobs).list
    /\ wjob' = [wjob EXCEPT ![w] = [no |-> BRPop(jobs).element.no,
                                    data |-> JsonDecode(BRPop(jobs).element.text)]]
    /\ wpc' = [wpc EXCEPT ![w] = "match"]
    /\ UNCHANGED <<pushed, added, total, executed, lost, blogVars, repoVars>>

\* $job = match ($jobType) { 'say_hello' => new SayHelloJob(), ... }
MatchJob(w) ==
    /\ wpc[w] = "match"
    /\ Match(wjob[w].data.type) # "throw"
    /\ wpc' = [wpc EXCEPT ![w] = "execute"]
    /\ UNCHANGED <<jobs, pushed, added, total, wjob, executed, lost, blogVars, repoVars>>

\* Variant: the default arm logs the unknown type and the loop goes on
\* (default => null, then continue).
MatchThrowSkipping(w) ==
    /\ wpc[w] = "match"
    /\ Match(wjob[w].data.type) = "throw"
    /\ wpc' = [wpc EXCEPT ![w] = "brpop"]
    /\ lost' = lost \cup {[no |-> wjob[w].no, at |-> "match"]}
    /\ UNCHANGED <<jobs, pushed, added, total, wjob, executed, blogVars, repoVars>>

\* default => throw new \Exception(...): nothing catches it, the script ends.
MatchThrow(w) ==
    /\ wpc[w] = "match"
    /\ Match(wjob[w].data.type) = "throw"
    /\ wpc' = [wpc EXCEPT ![w] = "dead"]
    /\ lost' = lost \cup {[no |-> wjob[w].no, at |-> "match"]}
    /\ UNCHANGED <<jobs, pushed, added, total, wjob, executed, blogVars, repoVars>>

\* Variant: a worker without the while (true) loop, which ends after the
\* job it executed.
ExecuteAndExit(w) ==
    /\ wpc[w] = "execute"
    /\ executed' = Append(executed, [no |-> wjob[w].no, worker |-> w,
                                     name |-> wjob[w].data.body.name])
    /\ wjob' = [wjob EXCEPT ![w] = NoJob]
    /\ wpc' = [wpc EXCEPT ![w] = "dead"]
    /\ UNCHANGED <<jobs, pushed, added, total, lost, blogVars, repoVars>>

\* $job->execute($jobBody) returns: the worker loops back to brpop.
Execute(w) ==
    /\ wpc[w] = "execute"
    /\ executed' = Append(executed, [no |-> wjob[w].no, worker |-> w,
                                     name |-> wjob[w].data.body.name])
    /\ wjob' = [wjob EXCEPT ![w] = NoJob]
    /\ wpc' = [wpc EXCEPT ![w] = "brpop"]
    /\ UNCHANGED <<jobs, pushed, added, total, lost, blogVars, repoVars>>

\* Variant: the worker catches the failure and pushes the job back
\* (catch (\Throwable $e) { $redis->lpush('jobs', json_encode($jobData)); }).
ExecuteFailsRequeue(w) ==
    /\ wpc[w] = "execute"
    /\ jobs' = LPush(jobs, [no |-> wjob[w].no, text |-> JsonEncode(wjob[w].data)])
    /\ wpc' = [wpc EXCEPT ![w] = "dead"]
    /\ lost' = lost \cup {[no |-> wjob[w].no, at |-> "execute"]}
    /\ UNCHANGED <<pushed, added, total, wjob, executed, blogVars, repoVars>>

\* $job->execute($jobBody) fails (it throws, or the process is killed):
\* nothing catches the failure, the script ends.
ExecuteFails(w) ==
    /\ wpc[w] = "execute"
    /\ wpc' = [wpc EXCEPT ![w] = "dead"]
    /\ lost' = lost \cup {[no |-> wjob[w].no, at |-> "execute"]}
    /\ UNCHANGED <<jobs, pushed, added, total, wjob, executed, blogVars, repoVars>>

QueueNext ==
    \/ \E n \in 1..MaxJobs : RunAddJobs(n)
    \/ AddJob
    \/ AppPush
    \/ \E w \in Workers :
         \/ StartWorker(w)
         \/ Brpop(w)
         \/ MatchJob(w)
         \/ MatchThrow(w)
         \/ Execute(w)
         \/ ExecuteFails(w)

QueueSpec == QueueInit /\ [][QueueNext]_vars

\* The next statement of worker w when nothing fails: brpop returning a job,
\* the match, or execute returning.
WorkerStep(w) == Brpop(w) \/ MatchJob(w) \/ MatchThrow(w) \/ Execute(w)

\* A worker process that was started keeps running: brpop returns when
\* the list holds a job, and the statements after it are executed. Nothing
\* obliges anybody to start a worker or to push a job, and an execution may
\* fail instead of returning.
QueueFairSpec ==
    /\ QueueInit
    /\ [][QueueNext]_vars
    /\ \A w \in Workers : WF_vars(WorkerStep(w))

QueueTypeOK ==
    /\ pushed \in 0..MaxJobs
    /\ added \in -1..MaxJobs
    /\ \A w \in Workers : wpc[w] \in {"off", "brpop", "match", "execute", "dead"}
    /\ Len(jobs) <= MaxJobs

\* The workers that were started, and those holding a popped job.
Started == {w \in Workers : wpc[w] # "off"}

Holding == {w \in Workers : wpc[w] \in {"match", "execute"}}

(* C15: FIFO order with a single worker: the jobs are pulled and executed  *)
(* in exactly the order in which they were submitted.                      *)
SingleWorkerExecutesInSubmissionOrder ==
    Cardinality(Started) <= 1 =>
        /\ \A i, j \in 1..Len(executed) : i < j => executed[i].no < executed[j].no
        /\ \A i \in 1..Len(executed) :
              /\ \A n \in Listed(jobs) : executed[i].no < n
              /\ \A w \in Holding : executed[i].no < wjob[w].no

\* One worker executed three jobs, the first submitted first and the last last.
ThreeJobsExecutedByOneWorker ==
    /\ Cardinality(Started) = 1
    /\ Len(executed) = 3
    /\ executed[1].no = 1
    /\ executed[3].no = 3

(* C16: with two or more workers each submitted job is delivered to and    *)
(* executed by at most one worker, under every interleaving.               *)
JobDeliveredToOneWorkerAtMost ==
    /\ \A i, j \in 1..Len(executed) : executed[i].no = executed[j].no => i = j
    /\ \A v, w \in Holding : wjob[v].no = wjob[w].no => v = w
    /\ \A w \in Holding :
          /\ wjob[w].no \notin Listed(jobs)
          /\ \A i \in 1..Len(executed) : executed[i].no # wjob[w].no
    /\ \A i \in 1..Len(executed) : executed[i].no \notin Listed(jobs)

\* Two workers hold a popped job each after the second worker executed one.
TwoWorkersHoldDifferentJobs ==
    /\ Cardinality(Holding) = 2
    /\ Len(executed) >= 1
    /\ executed[1].worker = 2

(* C17: a job leaves the list when a worker pops it, before it is          *)
(* executed: when its execution fails it is in no list, it was not         *)
(* executed and it is never executed later.                                *)
FailedJobIsLost ==
    /\ \A w \in Holding : wjob[w].no \notin Listed(jobs)
    /\ \A l \in lost :
          /\ l.no \notin Listed(jobs)
          /\ \A i \in 1..Len(executed) : executed[i].no # l.no
          /\ \A w \in Holding : wjob[w].no # l.no

\* A job failed in execution, and the other worker executed a later job
\* after that.
JobLostWhileQueueGoesOn ==
    /\ \E l \in lost : l.at = "execute" /\ l.no = 1
    /\ Len(executed) >= 1
    /\ executed[Len(executed)].no > 1
    /\ jobs = <<>>

\* The workers that pull: started and not ended by an exception.
Pulling == {w \in Workers : wpc[w] \in {"brpop", "match", "execute"}}

(* C21: a worker that popped a job of an unknown type raises an error and  *)
(* stops pulling for good; that job is in no list and is not executed; and *)
(* while no worker pulls, every job of the list stays in it, unprocessed.  *)
UnknownJobTypeStopsTheWorker ==
    [][/\ \A w \in Workers :
             (/\ wpc[w] = "match"
              /\ Match(wjob[w].data.type) = "throw"
              /\ wpc'[w] # wpc[w])
                => /\ wpc'[w] = "dead"
                   /\ jobs' = jobs
                   /\ executed' = executed
       /\ \A w \in Workers : wpc[w] = "dead" => wpc'[w] = "dead"
       /\ \A l \in lost' :
             l.at = "match"
                => /\ l.no \notin Listed(jobs')
                   /\ \A i \in 1..Len(executed') : executed'[i].no # l.no
       /\ Pulling = {}
             => /\ \A k \in 1..Len(jobs) : jobs'[Len(jobs') - Len(jobs) + k] = jobs[k]
                /\ executed' = executed]_vars

\* The only worker started ended on the first job, of an unknown type, and
\* two jobs wait in the list for a worker that is not started yet.
JobsWaitAfterUnknownType ==
    /\ wpc[1] = "dead"
    /\ wpc[2] = "off"
    /\ lost = {[no |-> 1, at |-> "match"]}
    /\ Listed(jobs) = {2, 3}
    /\ executed = <<>>

(* C22: once a worker was started, every job of the list is eventually    *)
(* executed, unless that job fails or a failure ended every worker that    *)
(* was started; this covers the jobs pushed while a worker waits on the    *)
(* empty list.                                                             *)
EveryJobEventuallyExecuted ==
    \A n \in 1..MaxJobs :
        (n \in Listed(jobs) /\ Started # {})
            ~> \/ \E i \in 1..Len(executed) : executed[i].no = n
               \/ \E l \in lost : l.no = n
               \/ lost # {} /\ \A w \in Started : wpc[w] = "dead"

\* The only worker executed the first job and waits on the empty list
\* while add_jobs.php has jobs left to push; nothing has failed.
WorkerWaitsForJobsToCome ==
    /\ Started = {1}
    /\ wpc[1] = "brpop"
    /\ jobs = <<>>
    /\ Len(executed) = 1
    /\ added >= 0
    /\ added < total
    /\ pushed < MaxJobs
    /\ lost = {}

----------------------------------------------------------------------------
(* The posts repository: PostgresPostsRepository over the table posts.     *)

MaxId == 3

PostIds == 1..MaxId

Titles == {"Hello", "Hello again"}

Bodies == {"First body", "Second body"}

\* new Post($id, $title, $body): an immutable entity.
Post(id, title, body) == [class |-> "Post", id |-> id, title |-> title, body |-> body]

\* The posts a caller may hand to save.
Posts == {Post(id, title, body) : id \in PostIds, title \in Titles, body \in Bodies}

\* PHP null, as find returns it.
NullPost == [class |-> "null"]

\* mapToObject: the Post of a row of the table.
mapToObject(row) == Post(row.id, row.title, row.body)

\* SELECT * FROM posts WHERE id = :id
SelectById(rows, id) == {row \in rows : row.id = id}

\* find: fetch() of the select, null when there is no row.
find(rows, postId) ==
    IF SelectById(rows, postId) = {} THEN NullPost
    ELSE mapToObject(CHOOSE row \in SelectById(rows, postId) : TRUE)

\* Variant: INSERT INTO posts ... ON CONFLICT (id) DO NOTHING
InsertOrIgnore(rows, post) ==
    IF \E row \in rows : row.id = post.id THEN rows
    ELSE rows \cup {[id |-> post.id, title |-> post.title, body |-> post.body]}

\* INSERT INTO posts (id, title, body) VALUES (:id, :title, :body)
\* ON CONFLICT (id) DO UPDATE SET title = :title, body = :body
InsertOrUpdate(rows, post) ==
    IF \E row \in rows : row.id = post.id
    THEN {IF row.id = post.id
          THEN [row EXCEPT !.title = post.title, !.body = post.body]
          ELSE row : row \in rows}
    ELSE rows \cup {[id |-> post.id, title |-> post.title, body |-> post.body]}

\* Variant: DELETE FROM posts WHERE id <= :id
DeleteUpToId(rows, id) == {row \in rows : row.id > id}

\* DELETE FROM posts WHERE id = :id
DeleteById(rows, id) == {row \in rows : row.id # id}

\* save(Post $post): Post
Save(post) ==
    /\ table' = InsertOrUpdate(table, post)
    /\ call' = [op |-> "save", post |-> post,
                returned |-> find(InsertOrUpdate(table, post), post.id)]
    /\ UNCHANGED <<seq, blogVars, queueVars>>

\* find(int $postId): ?Post
Find(postId) ==
    /\ call' = [op |-> "find", id |-> postId, returned |-> find(table, postId)]
    /\ UNCHANGED <<table, seq, blogVars, queueVars>>

\* delete(int $postId): void
Delete(postId) ==
    /\ table' = DeleteById(table, postId)
    /\ call' = [op |-> "delete", id |-> postId]
    /\ UNCHANGED <<seq, blogVars, queueVars>>

\* nextIdentity(): SELECT nextval('posts_id_seq')
NextIdentity ==
    /\ seq < MaxId
    /\ seq' = seq + 1
    /\ call' = [op |-> "nextIdentity", returned |-> seq + 1]
    /\ UNCHANGED <<table, blogVars, queueVars>>

RepoNext ==
    \/ \E post \in Posts : Save(post)
    \/ \E postId \in PostIds : Find(postId) \/ Delete(postId)
    \/ NextIdentity

RepoInit ==
    /\ BlogOff
    /\ QueueOff
    /\ RepoOff

RepoSpec == RepoInit /\ [][RepoNext]_vars

(* C18: save is an upsert: after save(p) the repository finds under p's id *)
(* a post with p's id, title and body, whether or not the id was stored    *)
(* before; it holds exactly one post with that id; and every post with     *)
(* another id is as it was.                                                *)
SaveIsUpsert ==
    [][call'.op = "save" =>
         /\ call'.returned = call'.post
         /\ \E row \in table' :
               /\ row.id = call'.post.id
               /\ row.title = call'.post.title
               /\ row.body = call'.post.body
         /\ Cardinality({row \in table' : row.id = call'.post.id}) = 1
         /\ {row \in table' : row.id # call'.post.id}
               = {row \in table : row.id # call'.post.id}]_vars

\* A stored post was saved again with another title and body while another
\* post is stored, and the find that ends save returned the new ones.
StoredPostSavedAgain ==
    /\ call.op = "save"
    /\ call.post = Post(1, "Hello again", "Second body")
    /\ call.returned = call.post
    /\ \E row \in table : row.id = 2
    /\ Cardinality(table) = 2


\* The posts of the table, as all() maps them.
Stored == {mapToObject(row) : row \in table}

(* C23: find returns null for an id that is not stored; after delete(id)   *)
(* find(id) returns null and every post with another id is found as it     *)
(* was; delete of an id that is not stored changes nothing.                *)
DeleteRemovesOnlyThatPost ==
    [][/\ call'.op = "find" =>
             /\ (\A post \in Stored' : post.id # call'.id) => call'.returned = NullPost
             /\ \A post \in Stored' : post.id = call'.id => call'.returned = post
       /\ call'.op = "delete" =>
             /\ find(table', call'.id) = NullPost
             /\ \A postId \in PostIds \ {call'.id} :
                   find(table', postId) = find(table, postId)
             /\ {post \in Stored' : post.id # call'.id}
                   = {post \in Stored : post.id # call'.id}
             /\ find(table, call'.id) = NullPost => table' = table]_vars

\* Post 2 was deleted while posts 1 and 3 are stored, and they are stored
\* still.
PostDeletedBetweenTwoOthers ==
    /\ call.op = "delete"
    /\ call.id = 2
    /\ find(table, 2) = NullPost
    /\ find(table, 1) = Post(1, "Hello", "First body")
    /\ find(table, 3) = Post(3, "Hello again", "Second body")

====
